---- MODULE Spec2Model ----
(***************************************************************************)
(* ApiTokenService (src/src/lib/services/api-token-service.ts) as a state  *)
(* machine.  The service runs on a single-threaded cooperative runtime:    *)
(* every action below is one synchronous stretch of code, from the point   *)
(* where it is entered (a call, a timer tick, the resumption after an      *)
(* awaited store call) to the next await or return.  The store is an       *)
(* external collaborator: an awaited store call is split into the store    *)
(* answering the call and the service resuming with that answer.           *)
(*                                                                         *)
(* Strings are sequences of one-character strings, so that split, template *)
(* literals, hex rendering and exact comparison are computed, not assumed. *)
(***************************************************************************)
EXTENDS Integers, Sequences, FiniteSets, TLC

(***************************************************************************)
(* Bounds of the model.                                                    *)
(***************************************************************************)
MaxCreates == 1
MaxPending == 2
MaxStoreOps == 1

(***************************************************************************)
(* Constants of the program.                                               *)
(***************************************************************************)
ALL == <<"*">>
ADMIN == "ADMIN"
CLIENT == "CLIENT"
TypeAdmin == "admin"
TypeClient == "client"
FOREIGN_KEY_VIOLATION == "23503"
UNIQUE_VIOLATION == "23505"
ProjectFkey == "api_tokens_project_fkey"
EnvironmentFkey == "api_tokens_environment_fkey"
SecretBytes == 28

Undefined == <<"undefined">>
Absent == [absent |-> TRUE]
\* An error object: BadDataError carries no code; a store error has the
\* driver's code and, for a constraint violation, the constraint's name.
Error(name, code, constraint, message) ==
    [name |-> name, code |-> code, constraint |-> constraint, message |-> message]
NoError == Error("none", "none", "none", <<>>)

(***************************************************************************)
(* The world around the service: the projects and environments that exist  *)
(* in the owning system (the targets of the store's foreign keys), the     *)
(* descriptors a caller may pass, and the operator's configuration.        *)
(***************************************************************************)
ProjP == <<"p">>
ProjQ == <<"q">>
EnvE == <<"e">>
EnvF == <<"f">>
ExistingProjects == {ALL, ProjP}
ExistingEnvironments == {ALL, EnvE}
InputProjects == {ALL, ProjP, ProjQ}
InputEnvironments == {ALL, EnvE, EnvF}
InputTypes == {TypeAdmin, TypeClient}
UserName == <<"u">>
AdminName == <<"a", "d", "m", "i", "n">>

CreateInputs ==
    [type : InputTypes, project : InputProjects, environment : InputEnvironments,
     username : {UserName}]

\* A valid descriptor, one naming a missing project and one the validator
\* rejects.
FewCreateInputs ==
    { [type |-> TypeClient, project |-> ProjP, environment |-> EnvE, username |-> UserName],
      [type |-> TypeClient, project |-> ProjQ, environment |-> EnvE, username |-> UserName],
      [type |-> TypeAdmin, project |-> ProjP, environment |-> ALL, username |-> UserName] }

\* authentication.initApiTokens: absent, or a list of descriptor strings.
NoInitTokens == [given |-> FALSE, tokens |-> <<>>]
InitTokens(tokens) == [given |-> TRUE, tokens |-> tokens]
DescAllA == <<"*", ":", "*", ":", "a">>
DescAllB == <<"*", ":", "*", ":", "b">>
DescProj == <<"p", ":", "*", ":", "a">>
DescEnv == <<"*", ":", "e", ":", "a">>
DescColon == <<"*", ":", "*", ":", "a", ":", "b">>
DescShort == <<"*", ":", "*">>
InitTokenConfigs ==
    { InitTokens(tokens) :
        tokens \in { <<>>,
                     <<DescAllA>>,
                     <<DescAllA, DescAllB>>,
                     <<DescAllA, DescAllA>>,
                     <<DescAllA, DescProj, DescAllB>>,
                     <<DescEnv>>,
                     <<DescColon>>,
                     <<DescShort>> } }

(***************************************************************************)
(* String helpers.                                                         *)
(***************************************************************************)
RECURSIVE SplitFrom(_, _, _)
\* String.prototype.split(sep): cur is the part being collected.
SplitFrom(s, sep, cur) ==
    IF s = <<>> THEN <<cur>>
    ELSE IF Head(s) = sep THEN <<cur>> \o SplitFrom(Tail(s), sep, <<>>)
    ELSE SplitFrom(Tail(s), sep, Append(cur, Head(s)))

Split(s, sep) == SplitFrom(s, sep, <<>>)

\* tokenParts[i] (1-based here): undefined past the end of the array.
Part(parts, i) == IF i <= Len(parts) THEN parts[i] ELSE Undefined

HexDigits ==
    <<"0", "1", "2", "3", "4", "5", "6", "7", "8", "9", "a", "b", "c", "d", "e", "f">>

RECURSIVE ToHex(_)
\* Buffer.toString('hex'): two lower-case digits per byte.
ToHex(bytes) ==
    IF bytes = <<>> THEN <<>>
    ELSE <<HexDigits[(Head(bytes) \div 16) + 1], HexDigits[(Head(bytes) % 16) + 1]>>
         \o ToHex(Tail(bytes))

\* crypto.randomBytes(n): the k-th draw of the secure random source.  Draws
\* never repeat; the bytes of a draw are spread over the whole byte range.
RandomBytes(n, k) == [i \in 1..n |-> (k * 97 + i * 31) % 256]

(***************************************************************************)
(* Pure functions of the service.                                          *)
(***************************************************************************)
BadDataError(msg) == Error("BadDataError", "none", "none", msg)

\* validateNewApiToken without the rule on an admin token's environment.
validate_noAdminEnvironment(t) ==
    IF t.type = TypeAdmin /\ t.project # ALL
    THEN BadDataError(<<"Admin token cannot be scoped to single project">>)
    ELSE IF t.type = TypeClient /\ t.environment = ALL
    THEN BadDataError(<<"Client token cannot be scoped to all environments">>)
    ELSE NoError

\* validateNewApiToken with the client rule testing the project.
validate_clientProject(t) ==
    IF t.type = TypeAdmin /\ t.project # ALL
    THEN BadDataError(<<"Admin token cannot be scoped to single project">>)
    ELSE IF t.type = TypeAdmin /\ t.environment # ALL
    THEN BadDataError(<<"Admin token cannot be scoped to single environment">>)
    ELSE IF t.type = TypeClient /\ t.project = ALL
    THEN BadDataError(<<"Client token cannot be scoped to all environments">>)
    ELSE NoError

\* validateNewApiToken: the error thrown, or NoError.
validateNewApiToken(t) ==
    IF t.type = TypeAdmin /\ t.project # ALL
    THEN BadDataError(<<"Admin token cannot be scoped to single project">>)
    ELSE IF t.type = TypeAdmin /\ t.environment # ALL
    THEN BadDataError(<<"Admin token cannot be scoped to single environment">>)
    ELSE IF t.type = TypeClient /\ t.environment = ALL
    THEN BadDataError(<<"Client token cannot be scoped to all environments">>)
    ELSE NoError

\* generateSecretKey rendering the random bytes one character per byte.
generateSecretKey_latin1(project, environment, k) ==
    project \o <<":">> \o environment \o <<".">>
    \o [i \in 1..SecretBytes |-> HexDigits[(RandomBytes(SecretBytes, k)[i] % 16) + 1]]

generateSecretKey(project, environment, k) ==
    project \o <<":">> \o environment \o <<".">> \o ToHex(RandomBytes(SecretBytes, k))

\* The seeder's record scoped ALL/ALL whatever the descriptor names.
SeedToken_allScope(desc) ==
    LET tokenParts == Split(desc, ":") IN
    [secret |-> Part(tokenParts, 1) \o <<":">> \o Part(tokenParts, 2) \o <<".">>
                \o Part(tokenParts, 3),
     project |-> ALL,
     environment |-> ALL,
     type |-> TypeAdmin,
     username |-> AdminName,
     expiresAt |-> "never"]

\* The record the seeder builds from one descriptor string.
SeedToken(desc) ==
    LET tokenParts == Split(desc, ":") IN
    [secret |-> Part(tokenParts, 1) \o <<":">> \o Part(tokenParts, 2) \o <<".">>
                \o Part(tokenParts, 3),
     project |-> Part(tokenParts, 1),
     environment |-> Part(tokenParts, 2),
     type |-> TypeAdmin,
     username |-> AdminName,
     expiresAt |-> "never"]

ApiUser(token, permissions) ==
    [username |-> token.username,
     permissions |-> permissions,
     project |-> token.project,
     environment |-> token.environment,
     type |-> token.type]

RECURSIVE Find(_, _)
\* Array.prototype.find with t.secret === secret: the first match, or Absent.
Find(tokens, secret) ==
    IF tokens = <<>> THEN Absent
    ELSE IF Head(tokens).secret = secret THEN Head(tokens)
    ELSE Find(Tail(tokens), secret)

RECURSIVE FindPrefix(_, _)
\* find with t.secret.startsWith(secret).
FindPrefix(tokens, secret) ==
    IF tokens = <<>> THEN Absent
    ELSE IF /\ Len(secret) <= Len(Head(tokens).secret)
            /\ SubSeq(Head(tokens).secret, 1, Len(secret)) = secret
         THEN Head(tokens)
    ELSE FindPrefix(Tail(tokens), secret)

\* getUserForToken matching on a prefix of the secret.
getUserForToken_prefix(tokens, secret) ==
    LET token == FindPrefix(tokens, secret) IN
    IF token # Absent
    THEN ApiUser(token, IF token.type = TypeAdmin THEN {ADMIN} ELSE {CLIENT})
    ELSE Absent

getUserForToken(tokens, secret) ==
    LET token == Find(tokens, secret) IN
    IF token # Absent
    THEN ApiUser(token, IF token.type = TypeAdmin THEN {ADMIN} ELSE {CLIENT})
    ELSE Absent

\* The catch block with the two messages naming the other field.
InsertError_swapped(error, newApiToken) ==
    IF error.code = FOREIGN_KEY_VIOLATION
    THEN IF error.constraint = ProjectFkey
         THEN BadDataError(<<"Project=">> \o newApiToken.environment
                           \o <<" does not exist">>)
         ELSE IF error.constraint = EnvironmentFkey
         THEN BadDataError(<<"Environment=">> \o newApiToken.project
                           \o <<" does not exist">>)
         ELSE BadDataError(error.message)
    ELSE error

\* The catch block of insertNewApiToken: what is thrown for a store error.
InsertError(error, newApiToken) ==
    IF error.code = FOREIGN_KEY_VIOLATION
    THEN IF error.constraint = ProjectFkey
         THEN BadDataError(<<"Project=">> \o newApiToken.project \o <<" does not exist">>)
         ELSE IF error.constraint = EnvironmentFkey
         THEN BadDataError(<<"Environment=">> \o newApiToken.environment
                           \o <<" does not exist">>)
         ELSE BadDataError(error.message)
    ELSE error

(***************************************************************************)
(* The store gateway (IApiTokenStore), as the service requires it.         *)
(***************************************************************************)
SecretsOf(tokens) == {tokens[i].secret : i \in 1..Len(tokens)}

RECURSIVE Active(_)
\* getAllActive: the records that are not expired, in store order.
Active(tokens) ==
    IF tokens = <<>> THEN <<>>
    ELSE IF Head(tokens).expiresAt # "past"
         THEN <<Head(tokens)>> \o Active(Tail(tokens))
         ELSE Active(Tail(tokens))

RECURSIVE Without(_, _)
Without(tokens, secret) ==
    IF tokens = <<>> THEN <<>>
    ELSE IF Head(tokens).secret = secret THEN Without(Tail(tokens), secret)
    ELSE <<Head(tokens)>> \o Without(Tail(tokens), secret)

WithExpiry(tokens, secret, expiresAt) ==
    [i \in 1..Len(tokens) |->
        IF tokens[i].secret = secret
        THEN [tokens[i] EXCEPT !.expiresAt = expiresAt]
        ELSE tokens[i]]

TransientError == Error("Error", "ECONNREFUSED", "none", <<"connection refused">>)

FkError(constraint) ==
    Error("error", FOREIGN_KEY_VIOLATION, constraint, <<"violates foreign key constraint">>)

UniqueError == Error("error", UNIQUE_VIOLATION, "api_tokens_pkey", <<"duplicate key">>)

\* The errors insert(t) can fail with in store s; empty when the insert is legal.
ConstraintErrors(s, t) ==
    (IF t.project \in ExistingProjects THEN {} ELSE {FkError(ProjectFkey)})
    \cup
    (IF t.environment \in ExistingEnvironments THEN {} ELSE {FkError(EnvironmentFkey)})
    \cup
    (IF t.secret \in SecretsOf(s) THEN {UniqueError} ELSE {})

\* What the store may answer to insert(t): an error, or NoError with t stored.
InsertAnswers(s, t) ==
    IF ConstraintErrors(s, t) # {} THEN ConstraintErrors(s, t) \cup {TransientError}
    ELSE {NoError, TransientError}

(***************************************************************************)
(* State.                                                                  *)
(***************************************************************************)
VARIABLES
    store,          \* the token table, in insertion order
    activeTokens,   \* this.activeTokens
    timer,          \* this.timer is a live interval
    initApiTokens,  \* config.authentication.initApiTokens
    fetches,        \* the fetchActiveTokens calls awaiting the store, in start order
    calls,          \* the createApiToken calls, in call order
    seed,           \* the initApiTokens activity
    rnd,            \* draws taken from the random source
    lookup,         \* the last getUserForToken call and what it returned
    removed,        \* secrets deleted from the store and not inserted since
    nStoreOps       \* updateExpiry and delete calls made

vars ==
    <<store, activeTokens, timer, initApiTokens, fetches, calls, seed, rnd, lookup,
      removed, nStoreOps>>

StoredToken(secret, type, project, environment, username, expiresAt) ==
    [secret |-> secret, project |-> project, environment |-> environment,
     type |-> type, username |-> username, expiresAt |-> expiresAt]

OldClient ==
    StoredToken(<<"p", ":", "e", ".", "o", "l", "d">>, TypeClient, ProjP, EnvE,
                UserName, "never")
OldExpired ==
    StoredToken(<<"*", ":", "e", ".", "e", "x", "p">>, TypeClient, ALL, EnvE,
                UserName, "past")

\* What earlier runs of the process may have left in the store: nothing,
\* tokens created by callers, or the token an earlier seeding inserted.
InitialStores == {<<>>, <<OldClient, OldExpired>>}
SeededStore == <<SeedToken(DescAllA)>>

\* A fetchActiveTokens call at its await: the store has yet to answer.  first
\* marks the call the constructor made, after the secrets removed before it,
\* overtaken that a call started later has assigned its result to the cache.
PendingFetch(first, after) ==
    [st |-> "pending", snap |-> <<>>, first |-> first, after |-> after,
     overtaken |-> FALSE]

RemoveAt(seq, i) == SubSeq(seq, 1, i - 1) \o SubSeq(seq, i + 1, Len(seq))

IdleSeed(pc) ==
    [pc |-> pc, i |-> 0, count |-> -1, tok |-> Absent, err |-> NoError, issued |-> 0]

\* The state when the constructor has returned, for a store and a
\* configuration: the first fetch is issued and not awaited, the interval
\* timer runs, and the seeder is queued for the next tick when the
\* configuration has initApiTokens.
Constructed(stores, configs) ==
    /\ store \in stores
    /\ activeTokens = <<>>
    /\ timer = TRUE
    /\ initApiTokens \in configs
    /\ fetches = <<PendingFetch(TRUE, {})>>
    /\ calls = <<>>
    /\ seed = IdleSeed(IF initApiTokens.given THEN "scheduled" ELSE "off")
    /\ rnd = 0
    /\ lookup = [secret |-> <<>>, user |-> Absent]
    /\ removed = {}
    /\ nStoreOps = 0

Init ==
    \/ Constructed({<<>>}, {InitTokens(<<DescAllA>>)})
    \/ Constructed({<<OldClient>>}, {NoInitTokens})

InitCreate == Constructed(InitialStores, {NoInitTokens})

InitSeed == Constructed(InitialStores \cup {SeededStore}, InitTokenConfigs)

(***************************************************************************)
(* The cache refresh: fetchActiveTokens.                                   *)
(***************************************************************************)
\* A chained timer: a cycle starts only when the one before it has ended.
TimerTick_chained ==
    /\ timer
    /\ fetches = <<>>
    /\ fetches' = Append(fetches, PendingFetch(FALSE, removed))
    /\ UNCHANGED <<store, activeTokens, timer, initApiTokens, calls, seed, rnd, lookup,
                   removed, nStoreOps>>

\* The interval firing whether or not it was cleared.
TimerTick_afterClear ==
    /\ Len(fetches) < MaxPending
    /\ fetches' = Append(fetches, PendingFetch(FALSE, removed))
    /\ UNCHANGED <<store, activeTokens, timer, initApiTokens, calls, seed, rnd, lookup,
                   removed, nStoreOps>>

\* The interval fires: fetchActiveTokens runs up to its await, i.e. it issues
\* store.getAllActive().  Ticks are independent of fetches still pending.
TimerTick ==
    /\ timer
    /\ Len(fetches) < MaxPending
    /\ fetches' = Append(fetches, PendingFetch(FALSE, removed))
    /\ UNCHANGED <<store, activeTokens, timer, initApiTokens, calls, seed, rnd, lookup,
                   removed, nStoreOps>>

\* The store answers getAllActive for fetch f with the active records.
StoreGetAllActive(f) ==
    /\ fetches[f].st = "pending"
    /\ fetches' = [fetches EXCEPT ![f].st = "resolved", ![f].snap = Active(store)]
    /\ UNCHANGED <<store, activeTokens, timer, initApiTokens, calls, seed, rnd, lookup,
                   removed, nStoreOps>>

\* The store call of fetch f fails.
StoreGetAllActiveFails(f) ==
    /\ fetches[f].st = "pending"
    /\ fetches' = [fetches EXCEPT ![f].st = "rejected"]
    /\ UNCHANGED <<store, activeTokens, timer, initApiTokens, calls, seed, rnd, lookup,
                   removed, nStoreOps>>

\* fetchActiveTokens assigning whatever the call left, also when it failed.
fetchActiveTokens_clears(cache, f) == f.snap

\* fetchActiveTokens adding the fetched records to the list in place.
fetchActiveTokens_merges(cache, f) ==
    IF f.st = "resolved" THEN cache \o f.snap ELSE cache

\* fetchActiveTokens dropping the result of the call the constructor made.
fetchActiveTokens_skipsFirst(cache, f) ==
    IF f.st = "resolved" /\ ~f.first THEN f.snap ELSE cache

\* fetchActiveTokens copying the fetched records over the list in place,
\* without cutting the list to their number.
fetchActiveTokens_inPlace(cache, f) ==
    IF f.st = "resolved"
    THEN [i \in 1..(IF Len(cache) > Len(f.snap) THEN Len(cache) ELSE Len(f.snap)) |->
             IF i <= Len(f.snap) THEN f.snap[i] ELSE cache[i]]
    ELSE cache

\* fetchActiveTokens filling the cache once and leaving it alone afterwards.
fetchActiveTokens_onlyEmpty(cache, f) ==
    IF f.st = "resolved" /\ cache = <<>> THEN f.snap ELSE cache

\* The cache after fetchActiveTokens resumes from its await with fetch f: the
\* assignment when the call resolved; the finally block returns either way.
fetchActiveTokens(cache, f) ==
    IF f.st = "resolved" THEN f.snap ELSE cache

FetchResume(f) ==
    /\ fetches[f].st \in {"resolved", "rejected"}
    /\ activeTokens' = fetchActiveTokens(activeTokens, fetches[f])
    /\ fetches' = RemoveAt(fetches, f)
    /\ UNCHANGED <<store, timer, initApiTokens, calls, seed, rnd, lookup, removed,
                   nStoreOps>>

\* The calls still awaiting when call f has assigned its result: those
\* started before it are overtaken.
Overtaking(f) ==
    [g \in 1..Len(fetches) |->
        IF g < f THEN [fetches[g] EXCEPT !.overtaken = TRUE] ELSE fetches[g]]

\* FetchResume keeping the record of which calls were overtaken.
FetchResumeMarking(f) ==
    /\ fetches[f].st \in {"resolved", "rejected"}
    /\ activeTokens' = fetchActiveTokens(activeTokens, fetches[f])
    /\ fetches' = RemoveAt(IF fetches[f].st = "resolved" THEN Overtaking(f) ELSE fetches, f)
    /\ UNCHANGED <<store, timer, initApiTokens, calls, seed, rnd, lookup, removed,
                   nStoreOps>>

(***************************************************************************)
(* createApiToken and insertNewApiToken.                                   *)
(***************************************************************************)
\* A secret that enters the store is no longer a removed one, for the store
\* and for every fetch that has yet to read the store.
Reinserted(secret) ==
    /\ removed' = removed \ {secret}
    /\ fetches' = [f \in 1..Len(fetches) |->
                      IF fetches[f].st = "pending"
                      THEN [fetches[f] EXCEPT !.after = @ \ {secret}]
                      ELSE fetches[f]]

\* The record createApiToken hands to insertNewApiToken, with the k-th secret.
createNewToken(newToken, k) ==
    [secret |-> generateSecretKey(newToken.project, newToken.environment, k),
     project |-> newToken.project,
     environment |-> newToken.environment,
     type |-> newToken.type,
     username |-> newToken.username,
     expiresAt |-> "never"]

\* createApiToken up to the await in insertNewApiToken: validate, generate
\* the secret, issue store.insert.  A validation error rejects the call.
CreateApiToken(newToken) ==
    /\ Len(calls) < MaxCreates
    /\ LET error == validateNewApiToken(newToken) IN
       IF error # NoError
       THEN /\ calls' = Append(calls, [st |-> "threw", tok |-> Absent, err |-> error])
            /\ rnd' = rnd
       ELSE /\ calls' = Append(calls, [st |-> "inserting",
                                       tok |-> createNewToken(newToken, rnd + 1),
                                       err |-> NoError])
            /\ rnd' = rnd + 1
    /\ UNCHANGED <<store, activeTokens, timer, initApiTokens, fetches, seed, lookup,
                   removed, nStoreOps>>

\* The store answers the insert of call c.
StoreInsert(c) ==
    /\ calls[c].st = "inserting"
    /\ \E answer \in InsertAnswers(store, calls[c].tok) :
          IF answer = NoError
          THEN /\ store' = Append(store, calls[c].tok)
               /\ calls' = [calls EXCEPT ![c].st = "stored"]
               /\ Reinserted(calls[c].tok.secret)
          ELSE /\ calls' = [calls EXCEPT ![c].st = "failed", ![c].err = answer]
               /\ UNCHANGED <<store, removed, fetches>>
    /\ UNCHANGED <<activeTokens, timer, initApiTokens, seed, rnd, lookup, nStoreOps>>

\* insertNewApiToken returning the stored record without the push.
insertNewApiToken_noPush(cache, token) == cache

\* The cache after insertNewApiToken resumes from a successful insert.
insertNewApiToken(cache, token) == Append(cache, token)

\* insertNewApiToken resumes for call c: push and return, or translate and throw.
InsertResume(c) ==
    /\ calls[c].st \in {"stored", "failed"}
    /\ IF calls[c].st = "stored"
       THEN /\ activeTokens' = insertNewApiToken(activeTokens, calls[c].tok)
            /\ calls' = [calls EXCEPT ![c].st = "returned"]
       ELSE /\ activeTokens' = activeTokens
            /\ calls' = [calls EXCEPT ![c].st = "threw",
                                      ![c].err = InsertError(calls[c].err, calls[c].tok)]
    /\ UNCHANGED <<store, timer, initApiTokens, fetches, seed, rnd, lookup, removed,
                   nStoreOps>>

(***************************************************************************)
(* The bootstrap seeder: initApiTokens.                                    *)
(***************************************************************************)
\* The queued callback runs: initApiTokens issues store.count().
SeederStart ==
    /\ seed.pc = "scheduled"
    /\ seed' = [seed EXCEPT !.pc = "counting"]
    /\ UNCHANGED <<store, activeTokens, timer, initApiTokens, fetches, calls, rnd, lookup,
                   removed, nStoreOps>>

StoreCount ==
    /\ seed.pc = "counting"
    /\ \/ seed' = [seed EXCEPT !.pc = "counted", !.count = Len(store)]
       \/ seed' = [seed EXCEPT !.pc = "countFailed", !.err = TransientError]
    /\ UNCHANGED <<store, activeTokens, timer, initApiTokens, fetches, calls, rnd, lookup,
                   removed, nStoreOps>>

\* One turn of the for loop, from descriptor i up to the next await: the loop
\* ends, or validation throws into the catch block, or store.insert is issued.
SeedLoop(sd, tokens, i) ==
    IF i > Len(tokens)
    THEN [sd EXCEPT !.pc = "done", !.i = i, !.tok = Absent]
    ELSE LET newToken == SeedToken(tokens[i])
             error == validateNewApiToken(newToken)
         IN IF error # NoError
            THEN [sd EXCEPT !.pc = "done", !.i = i, !.tok = Absent, !.err = error]
            ELSE [sd EXCEPT !.pc = "inserting", !.i = i, !.tok = newToken,
                            !.issued = @ + 1]

\* initApiTokens entering the loop whatever the count.
initApiTokens_noCountCheck(sd, tokens) ==
    IF sd.pc = "countFailed" THEN [sd EXCEPT !.pc = "rejected"]
    ELSE SeedLoop(sd, tokens, 1)

\* initApiTokens after the count: return when there are tokens, else enter
\* the loop.  A failed count is outside the try block: the call rejects.
initApiTokens_afterCount(sd, tokens) ==
    IF sd.pc = "countFailed" THEN [sd EXCEPT !.pc = "rejected"]
    ELSE IF sd.count # 0 THEN [sd EXCEPT !.pc = "done"]
    ELSE SeedLoop(sd, tokens, 1)

SeederAfterCount ==
    /\ seed.pc \in {"counted", "countFailed"}
    /\ seed' = initApiTokens_afterCount(seed, initApiTokens.tokens)
    /\ UNCHANGED <<store, activeTokens, timer, initApiTokens, fetches, calls, rnd, lookup,
                   removed, nStoreOps>>

\* The store answers the seeder's insert.
StoreInsertSeed ==
    /\ seed.pc = "inserting"
    /\ \E answer \in InsertAnswers(store, seed.tok) :
          IF answer = NoError
          THEN /\ store' = Append(store, seed.tok)
               /\ seed' = [seed EXCEPT !.pc = "stored"]
               /\ Reinserted(seed.tok.secret)
          ELSE /\ seed' = [seed EXCEPT !.pc = "failed", !.err = answer]
               /\ UNCHANGED <<store, removed, fetches>>
    /\ UNCHANGED <<activeTokens, timer, initApiTokens, calls, rnd, lookup, nStoreOps>>

\* insertNewApiToken resumes in the seeder: push and go on with the next
\* descriptor, or throw into the catch block, which logs and ends the seeding.
SeederAfterInsert ==
    /\ seed.pc \in {"stored", "failed"}
    /\ IF seed.pc = "stored"
       THEN /\ activeTokens' = insertNewApiToken(activeTokens, seed.tok)
            /\ seed' = SeedLoop(seed, initApiTokens.tokens, seed.i + 1)
       ELSE /\ activeTokens' = activeTokens
            /\ seed' = [seed EXCEPT !.pc = "done", !.tok = Absent,
                                    !.err = InsertError(seed.err, seed.tok)]
    /\ UNCHANGED <<store, timer, initApiTokens, fetches, calls, rnd, lookup, removed,
                   nStoreOps>>

(***************************************************************************)
(* Lookup, updateExpiry, delete, destroy.                                  *)
(***************************************************************************)
UnknownSecret == <<"u", "n", "k", "n", "o", "w", "n">>

\* The secrets a caller may present: those of known tokens, each of them cut
\* short by one character, and one that was never issued.
Presentable ==
    LET known == SecretsOf(store) \cup SecretsOf(activeTokens) IN
    known \cup {SubSeq(s, 1, Len(s) - 1) : s \in known} \cup {UnknownSecret}

GetUserForToken(secret) ==
    /\ lookup' = [secret |-> secret, user |-> getUserForToken(activeTokens, secret)]
    /\ UNCHANGED <<store, activeTokens, timer, initApiTokens, fetches, calls, seed, rnd,
                   removed, nStoreOps>>

\* updateExpiry delegates to store.setExpiry and touches nothing else.
UpdateExpiry(secret, expiresAt) ==
    /\ nStoreOps < MaxStoreOps
    /\ secret \in SecretsOf(store)
    /\ store' = WithExpiry(store, secret, expiresAt)
    /\ nStoreOps' = nStoreOps + 1
    /\ UNCHANGED <<activeTokens, timer, initApiTokens, fetches, calls, seed, rnd, lookup,
                   removed>>

\* delete pruning the cache as well.
Delete_prunesCache(secret) ==
    /\ nStoreOps < MaxStoreOps
    /\ secret \in SecretsOf(store)
    /\ store' = Without(store, secret)
    /\ activeTokens' = Without(activeTokens, secret)
    /\ removed' = removed \cup {secret}
    /\ nStoreOps' = nStoreOps + 1
    /\ UNCHANGED <<timer, initApiTokens, fetches, calls, seed, rnd, lookup>>

\* delete delegates to store.delete and touches nothing else.
Delete(secret) ==
    /\ nStoreOps < MaxStoreOps
    /\ secret \in SecretsOf(store)
    /\ store' = Without(store, secret)
    /\ removed' = removed \cup {secret}
    /\ nStoreOps' = nStoreOps + 1
    /\ UNCHANGED <<activeTokens, timer, initApiTokens, fetches, calls, seed, rnd, lookup>>

\* The clock passes the expiry date of a record: the store stops listing it
\* as active, with no call made to the service.
TimeExpires(secret) ==
    /\ \E i \in 1..Len(store) : store[i].secret = secret /\ store[i].expiresAt = "future"
    /\ store' = WithExpiry(store, secret, "past")
    /\ UNCHANGED <<activeTokens, timer, initApiTokens, fetches, calls, seed, rnd, lookup,
                   removed, nStoreOps>>

Destroy ==
    /\ timer
    /\ timer' = FALSE
    /\ UNCHANGED <<store, activeTokens, initApiTokens, fetches, calls, seed, rnd, lookup,
                   removed, nStoreOps>>

(***************************************************************************)
(* Specifications.                                                         *)
(***************************************************************************)
Refresh ==
    \/ TimerTick
    \/ \E f \in 1..Len(fetches) : StoreGetAllActive(f)
    \/ \E f \in 1..Len(fetches) : StoreGetAllActiveFails(f)
    \/ \E f \in 1..Len(fetches) : FetchResume(f)

Inserting ==
    \/ \E c \in 1..Len(calls) : StoreInsert(c)
    \/ \E c \in 1..Len(calls) : InsertResume(c)

Seeding ==
    \/ SeederStart
    \/ StoreCount
    \/ SeederAfterCount
    \/ StoreInsertSeed
    \/ SeederAfterInsert

StoreOps ==
    \/ \E secret \in SecretsOf(store), expiresAt \in {"past", "future"} :
          UpdateExpiry(secret, expiresAt)
    \/ \E secret \in SecretsOf(store) : Delete(secret)

Lookups == \E secret \in Presentable : GetUserForToken(secret)

\* Every activity of the service, with few inputs.
Next ==
    \/ Refresh
    \/ \E newToken \in FewCreateInputs : CreateApiToken(newToken)
    \/ Inserting
    \/ Seeding
    \/ StoreOps
    \/ Lookups
    \/ Destroy

Spec == Init /\ [][Next]_vars

\* createApiToken with every input, against the refresh.
NextCreate ==
    \/ Refresh
    \/ \E newToken \in CreateInputs : CreateApiToken(newToken)
    \/ Inserting

SpecCreate == InitCreate /\ [][NextCreate]_vars

\* The seeder with every configuration, against the refresh, updateExpiry
\* and delete.
NextSeed ==
    \/ Refresh
    \/ Seeding
    \/ StoreOps

SpecSeed == InitSeed /\ [][NextSeed]_vars

\* Lookups, against the refresh and createApiToken.
NextLookup ==
    \/ Refresh
    \/ \E newToken \in FewCreateInputs : CreateApiToken(newToken)
    \/ Inserting
    \/ Lookups

SpecLookup == InitCreate /\ [][NextLookup]_vars

\* Overlapping refresh cycles, with the record of which fetch was overtaken,
\* against updateExpiry and delete.
NextOverlap ==
    \/ TimerTick
    \/ \E f \in 1..Len(fetches) : StoreGetAllActive(f)
    \/ \E f \in 1..Len(fetches) : StoreGetAllActiveFails(f)
    \/ \E f \in 1..Len(fetches) : FetchResumeMarking(f)
    \/ StoreOps

SpecOverlap == InitCreate /\ [][NextOverlap]_vars

\* The service left running, never destroyed: the refresh against the
\* seeder, createApiToken, updateExpiry, delete and the passing of time.  The
\* interval fires again and again, a resolved or rejected store call resumes
\* its fetchActiveTokens, and the store does not fail every fetch for ever.
InitLive == Constructed(InitialStores, {NoInitTokens, InitTokens(<<DescAllA>>)})

NextLive ==
    \/ Refresh
    \/ \E newToken \in FewCreateInputs : CreateApiToken(newToken)
    \/ Inserting
    \/ Seeding
    \/ StoreOps
    \/ \E secret \in SecretsOf(store) : TimeExpires(secret)

Fairness ==
    /\ WF_vars(TimerTick)
    /\ \A f \in 1..MaxPending :
          /\ SF_vars(f <= Len(fetches) /\ StoreGetAllActive(f))
          /\ WF_vars(f <= Len(fetches) /\ FetchResume(f))

SpecLive == InitLive /\ [][NextLive]_vars /\ Fairness

(***************************************************************************)
(* Properties.                                                             *)
(***************************************************************************)
Last(seq) == seq[Len(seq)]

\* The createApiToken calls that got past validation: store.insert was issued.
Issued(c) == calls[c].st \in {"inserting", "stored", "failed", "returned"}

\* C1: a createApiToken call for an ADMIN token scoped to a single project or
\* a single environment fails with a validation error without issuing
\* store.insert and without changing the store or the cache; every ADMIN
\* record createApiToken hands to the store or persists is scoped ALL/ALL.
C1_AdminScope ==
    /\ [][\A d \in CreateInputs :
            (/\ CreateApiToken(d)
             /\ d.type = TypeAdmin
             /\ (d.project # ALL \/ d.environment # ALL))
            => /\ Last(calls').st = "threw"
               /\ Last(calls').err.name = "BadDataError"
               /\ store' = store
               /\ activeTokens' = activeTokens]_vars
    /\ [](\A c \in 1..Len(calls) :
            (Issued(c) /\ calls[c].tok.type = TypeAdmin)
            => calls[c].tok.project = ALL /\ calls[c].tok.environment = ALL)
    /\ [](\A i \in 1..Len(store) :
            store[i].type = TypeAdmin
            => store[i].project = ALL /\ store[i].environment = ALL)

\* An ADMIN call was rejected for its environment.
C1_Witness ==
    \E c \in 1..Len(calls) :
        /\ calls[c].st = "threw"
        /\ calls[c].err =
              BadDataError(<<"Admin token cannot be scoped to single environment">>)

\* C2: a createApiToken call for a CLIENT token with environment ALL fails
\* with a validation error without issuing store.insert and without changing
\* the store or the cache; every CLIENT record createApiToken hands to the
\* store or persists has an environment other than ALL.
C2_ClientScope ==
    /\ [][\A d \in CreateInputs :
            (CreateApiToken(d) /\ d.type = TypeClient /\ d.environment = ALL)
            => /\ Last(calls').st = "threw"
               /\ Last(calls').err.name = "BadDataError"
               /\ store' = store
               /\ activeTokens' = activeTokens]_vars
    /\ [](\A c \in 1..Len(calls) :
            (Issued(c) /\ calls[c].tok.type = TypeClient)
            => calls[c].tok.environment # ALL)
    /\ [](\A i \in 1..Len(store) :
            store[i].type = TypeClient => store[i].environment # ALL)

\* A CLIENT call was rejected for environment ALL.
C2_Witness ==
    \E c \in 1..Len(calls) :
        /\ calls[c].st = "threw"
        /\ calls[c].err =
              BadDataError(<<"Client token cannot be scoped to all environments">>)

\* The Principal of a token record, field by field.
PrincipalOf(t) ==
    [username |-> t.username,
     permissions |-> IF t.type = TypeAdmin THEN {ADMIN} ELSE {CLIENT},
     project |-> t.project,
     environment |-> t.environment,
     type |-> t.type]

\* C3: when createApiToken returns record r, a getUserForToken(r.secret) made
\* right then, before anything else runs, returns a Principal with r's
\* project, environment, type and username.
C3_CreatedTokenUsable ==
    [][\A c \in 1..Len(calls) :
          (InsertResume(c) /\ calls[c].st = "stored")
          => LET r == calls[c].tok
                 user == getUserForToken(activeTokens', r.secret)
             IN /\ calls'[c].st = "returned"
                /\ user # Absent
                /\ user.project = r.project
                /\ user.environment = r.environment
                /\ user.type = r.type
                /\ user.username = r.username]_vars

\* A call has returned its record and the record's secret is found.
C3_Witness ==
    \E c \in 1..Len(calls) :
        /\ calls[c].st = "returned"
        /\ getUserForToken(activeTokens, calls[c].tok.secret) = PrincipalOf(calls[c].tok)

\* str occurs in the message msg.
Names(msg, str) ==
    \E i \in 1..Len(msg) : SubSeq(msg, i, i + Len(str) - 1) = str

\* C5: when store.insert fails in createApiToken, a foreign-key violation on
\* the project constraint surfaces as a validation error naming the supplied
\* project, one on the environment constraint as a validation error naming
\* the supplied environment, and any other failure unchanged; the cache is
\* left as it was.
C5_InsertFailure ==
    [][\A c \in 1..Len(calls) :
          (InsertResume(c) /\ calls[c].st = "failed")
          => LET error == calls[c].err
                 thrown == calls'[c].err
             IN /\ calls'[c].st = "threw"
                /\ activeTokens' = activeTokens
                /\ (error.code = FOREIGN_KEY_VIOLATION /\ error.constraint = ProjectFkey)
                   => /\ thrown.name = "BadDataError"
                      /\ Names(thrown.message, calls[c].tok.project)
                /\ (error.code = FOREIGN_KEY_VIOLATION
                    /\ error.constraint = EnvironmentFkey)
                   => /\ thrown.name = "BadDataError"
                      /\ Names(thrown.message, calls[c].tok.environment)
                /\ error.code # FOREIGN_KEY_VIOLATION => thrown = error]_vars

\* A call for the missing project q was rejected with a message naming q.
C5_Witness ==
    \E c \in 1..Len(calls) :
        /\ calls[c].st = "threw"
        /\ calls[c].err = BadDataError(<<"Project=", "q", " does not exist">>)

\* C6: when the fetch of a refresh cycle fails, the cycle ends with the cache
\* as it was, nothing is thrown at a caller or at the timer, which stays as
\* it was; a cycle whose fetch succeeds replaces the cache with what it
\* fetched, after a failed cycle as after any other.
C6_RefreshFailure ==
    [][\A f \in 1..Len(fetches) :
          /\ (FetchResume(f) /\ fetches[f].st = "rejected")
             => /\ activeTokens' = activeTokens
                /\ timer' = timer
                /\ calls' = calls
                /\ seed' = seed
                /\ Len(fetches') = Len(fetches) - 1
          /\ (FetchResume(f) /\ fetches[f].st = "resolved")
             => activeTokens' = fetches[f].snap]_vars

\* A fetch has failed while the cache holds a snapshot and the timer runs.
C6_Witness ==
    \E f \in 1..Len(fetches) :
        /\ fetches[f].st = "rejected"
        /\ activeTokens # <<>>
        /\ timer

\* C10 as stated: once the constructor has returned, the initial fetch has
\* been applied to the cache, so every token active in the store is found
\* unless that fetch failed.
C10_Original ==
    (/\ calls = <<>>
     /\ seed.pc \in {"off", "scheduled"}
     /\ nStoreOps = 0
     /\ \E f \in 1..Len(fetches) : fetches[f].first /\ fetches[f].st # "rejected")
    => \A i \in 1..Len(Active(store)) :
          getUserForToken(activeTokens, Active(store)[i].secret) # Absent

\* C10 as amended: the constructor issues the initial fetch without awaiting
\* it, so the cache is empty when construction finishes; it changes only
\* when a fetch or an insert resumes, and when the initial fetch resumes
\* with the store's answer every token of that answer is found with its
\* Principal.
C10_InitialFetch ==
    /\ activeTokens = <<>>
    /\ [][activeTokens' # activeTokens
          => \/ \E f \in 1..Len(fetches) : FetchResume(f)
             \/ \E c \in 1..Len(calls) : InsertResume(c)
             \/ SeederAfterInsert]_vars
    /\ [][\A f \in 1..Len(fetches) :
            (FetchResume(f) /\ fetches[f].first /\ fetches[f].st = "resolved")
            => \A i \in 1..Len(fetches[f].snap) :
                  getUserForToken(activeTokens', fetches[f].snap[i].secret)
                  = PrincipalOf(fetches[f].snap[i])]_vars

\* The initial fetch has resumed and a token the store held at construction
\* is found with its Principal.
C10_Witness ==
    /\ fetches = <<>>
    /\ calls = <<>>
    /\ getUserForToken(activeTokens, OldClient.secret) = PrincipalOf(OldClient)

\* What getUserForToken is to return for a secret: nothing when no cached
\* record has exactly that secret, else the Principal of the first that has.
Expected(cache, secret) ==
    IF \A i \in 1..Len(cache) : cache[i].secret # secret
    THEN Absent
    ELSE LET first == CHOOSE i \in 1..Len(cache) :
                         /\ cache[i].secret = secret
                         /\ \A j \in 1..(i - 1) : cache[j].secret # secret
         IN PrincipalOf(cache[first])

C8_SeederSkips ==
    /\ [][(SeederAfterCount /\ seed.pc = "counted" /\ seed.count # 0)
          => /\ seed'.pc = "done"
             /\ seed'.issued = 0
             /\ store' = store
             /\ activeTokens' = activeTokens]_vars
    /\ [](seed.count > 0 => seed.issued = 0 /\ seed.pc \in {"counted", "done"})

\* The seeder has run, with descriptors configured, against the store an
\* earlier seeding left, and has returned.
C8_Witness ==
    /\ seed.pc = "done"
    /\ seed.count > 0
    /\ initApiTokens.tokens # <<>>
    /\ store = SeededStore

\* A descriptor p:e:s with its three parts, none of them holding a colon.
Colons(desc) == {i \in 1..Len(desc) : desc[i] = ":"}
WellFormed(desc) == Cardinality(Colons(desc)) = 2
FirstColon(desc) == CHOOSE i \in Colons(desc) : \A j \in Colons(desc) : i <= j
SecondColon(desc) == CHOOSE i \in Colons(desc) : \A j \in Colons(desc) : j <= i
DescProject(desc) == SubSeq(desc, 1, FirstColon(desc) - 1)
DescEnvironment(desc) == SubSeq(desc, FirstColon(desc) + 1, SecondColon(desc) - 1)
DescSuffix(desc) == SubSeq(desc, SecondColon(desc) + 1, Len(desc))
DescSecret(desc) ==
    DescProject(desc) \o <<":">> \o DescEnvironment(desc) \o <<".">> \o DescSuffix(desc)

\* The seeder takes a turn of its loop: after the count found the store
\* empty, or after an insert succeeded.
SeedTurn ==
    \/ SeederAfterCount /\ seed.pc = "counted" /\ seed.count = 0
    \/ SeederAfterInsert /\ seed.pc = "stored"

\* C9 as stated: with the store empty, for every descriptor p:e:s the seeder
\* builds an ADMIN record scoped ALL/ALL with secret p:e.s and username
\* admin, which passes the validator and is handed to store.insert.
C9_Original ==
    [][(/\ SeedTurn
        /\ seed'.i <= Len(initApiTokens.tokens)
        /\ WellFormed(initApiTokens.tokens[seed'.i]))
       => /\ seed'.pc = "inserting"
          /\ seed'.tok = StoredToken(DescSecret(initApiTokens.tokens[seed'.i]),
                                     TypeAdmin, ALL, ALL, AdminName, "never")]_vars

\* C9 as amended: the record takes its project and environment from the
\* descriptor: it has project p, environment e, secret p:e.s and username
\* admin; it passes the validator and is handed to store.insert, which
\* appends it to the store, exactly when p and e are both ALL; for any
\* other p or e validation throws, nothing is inserted for the descriptor
\* and the seeding ends.
C9_SeedRecord ==
    /\ [][(/\ SeedTurn
           /\ seed'.i <= Len(initApiTokens.tokens)
           /\ WellFormed(initApiTokens.tokens[seed'.i]))
          => LET desc == initApiTokens.tokens[seed'.i] IN
             IF DescProject(desc) = ALL /\ DescEnvironment(desc) = ALL
             THEN /\ seed'.pc = "inserting"
                  /\ seed'.issued = seed.issued + 1
                  /\ seed'.tok = StoredToken(DescSecret(desc), TypeAdmin,
                                             DescProject(desc), DescEnvironment(desc),
                                             AdminName, "never")
             ELSE /\ seed'.pc = "done"
                  /\ seed'.err.name = "BadDataError"
                  /\ seed'.issued = seed.issued
                  /\ store' = store]_vars
    /\ [][(StoreInsertSeed /\ seed'.pc = "stored")
          => store' = Append(store, seed.tok)]_vars

\* The seeder has inserted the record of *:*:a and has ended on p:*:a, which
\* the validator rejects.
C9_Witness ==
    /\ seed.pc = "done"
    /\ seed.err = BadDataError(<<"Admin token cannot be scoped to single project">>)
    /\ SeedToken(DescAllA).secret \in SecretsOf(store)
    /\ SeedToken(DescAllA).secret \in SecretsOf(activeTokens)

\* C11: destroy() clears the interval; from then on the timer stays cleared
\* and starts no refresh cycle: no fetchActiveTokens call is added to those
\* awaiting the store.
C11_DestroyCancels ==
    /\ [][Destroy => ~timer']_vars
    /\ [][~timer => (~timer' /\ Len(fetches') <= Len(fetches))]_vars
    /\ [](~timer => ~ENABLED TimerTick)

\* The service was destroyed after a refresh filled the cache, and no fetch
\* is outstanding: a tick would have been the only way to start one.
C11_Witness ==
    /\ ~timer
    /\ fetches = <<>>
    /\ activeTokens # <<>>

HexCharacters == {HexDigits[i] : i \in 1..Len(HexDigits)}

\* C12: the secret of every record createApiToken hands to the store and
\* returns, for project p and environment e, is p:e. followed by a suffix of
\* exactly 56 hexadecimal characters, the rendering of the bytes drawn from
\* the random source.
C12_SecretFormat ==
    \A c \in 1..Len(calls) :
        Issued(c)
        => LET r == calls[c].tok
               prefix == r.project \o <<":">> \o r.environment \o <<".">>
           IN /\ Len(r.secret) = Len(prefix) + 56
              /\ SubSeq(r.secret, 1, Len(prefix)) = prefix
              /\ \A i \in (Len(prefix) + 1)..Len(r.secret) : r.secret[i] \in HexCharacters

\* createApiToken returned a record for project * and environment e.
C12_Witness ==
    \E c \in 1..Len(calls) :
        /\ calls[c].st = "returned"
        /\ calls[c].tok.project = ALL
        /\ calls[c].tok.environment = EnvE
        /\ SubSeq(calls[c].tok.secret, 1, 4) = <<"*", ":", "e", ".">>

\* The cached record with a secret, or Absent.
Cached(cache, secret) == Find(cache, secret)

\* C13: delete and updateExpiry leave the cache as it is, so every lookup
\* returns after the call what it returned before it; a cached record is
\* dropped or replaced by another with its secret only when a refresh cycle
\* resumes with the store's answer.
C13_StoreOnly ==
    /\ [][\A s \in SecretsOf(store) :
            (Delete(s) \/ \E expiresAt \in {"past", "future"} : UpdateExpiry(s, expiresAt))
            => /\ activeTokens' = activeTokens
               /\ \A x \in Presentable :
                     getUserForToken(activeTokens', x) = getUserForToken(activeTokens, x)]_vars
    /\ [][\A s \in SecretsOf(activeTokens) :
            Cached(activeTokens', s) # Cached(activeTokens, s)
            => \E f \in 1..Len(fetches) : FetchResume(f) /\ fetches[f].st = "resolved"]_vars

\* updateExpiry has changed a record in the store, and the cache holds the
\* record as it was.
C13_Witness ==
    \E i \in 1..Len(activeTokens), j \in 1..Len(store) :
        /\ activeTokens[i].secret = store[j].secret
        /\ activeTokens[i].expiresAt = "never"
        /\ store[j].expiresAt = "past"

\* A step of the seeder in which one of its steps throws: the count query
\* has failed, an insert has failed, or the validator rejects the record of
\* the descriptor the loop turns to.
ValidationThrows ==
    /\ SeedTurn
    /\ seed'.i <= Len(initApiTokens.tokens)
    /\ validateNewApiToken(SeedToken(initApiTokens.tokens[seed'.i])) # NoError
SeederThrows ==
    \/ SeederAfterCount /\ seed.pc = "countFailed"
    \/ SeederAfterInsert /\ seed.pc = "failed"
    \/ ValidationThrows

IsPrefix(s, t) == Len(s) <= Len(t) /\ SubSeq(t, 1, Len(s)) = s

\* C14: when a step of the seeder throws (the count query, the validation
\* of a descriptor, or an insert), the seeder ends normally, the error
\* caught and logged, not thrown out of initApiTokens; it issues no insert
\* afterwards, and what it inserted before stays in the store and in the
\* cache.
C14_SeederErrors ==
    /\ [](seed.pc # "rejected")
    /\ [][SeederThrows
          => /\ seed'.pc = "done"
             /\ seed'.issued = seed.issued
             /\ store' = store
             /\ IsPrefix(activeTokens, activeTokens')]_vars
    /\ [][seed.pc = "done" => seed' = seed]_vars

\* C15: once createApiToken has returned a record that has since been
\* neither deleted nor expired, getUserForToken finds it with its Principal
\* in every later state, whatever the refresh does in between.
C15_StaysUsable ==
    \A c \in 1..Len(calls) :
        (/\ calls[c].st = "returned"
         /\ calls[c].tok.secret \in SecretsOf(Active(store)))
        => getUserForToken(activeTokens, calls[c].tok.secret) = PrincipalOf(calls[c].tok)

\* A lookup of secret s in a cache agrees with the store: s is found
\* exactly when it is the secret of an active record.
Agrees(cache, s) ==
    getUserForToken(cache, s) # Absent <=> s \in SecretsOf(Active(store))

\* C16: the cache never goes back to an older snapshot: when a fetch resumes
\* after a fetch started later has assigned its result, no lookup that
\* agreed with the store stops agreeing with it; in particular a deleted
\* token that is no longer found is not found again.
C16_NoRegress ==
    [][\A g \in 1..Len(fetches) :
          (FetchResumeMarking(g) /\ fetches[g].overtaken)
          => \A s \in Presentable :
                Agrees(activeTokens, s) => Agrees(activeTokens', s)]_vars

\* C17: the cache is never a mixture of two snapshots.  It starts empty, and
\* every change of it is one of two: a fetch resuming assigns the whole
\* result of its getAllActive call, which is the store's complete list of
\* active records at the moment the store answered, or a successful insert
\* appends its record to the list as it is.
C17_WholeSnapshots ==
    /\ activeTokens = <<>>
    /\ [][\A f \in 1..Len(fetches) :
            StoreGetAllActive(f) => fetches'[f].snap = Active(store)]_vars
    /\ [][activeTokens' # activeTokens
          => \/ \E f \in 1..Len(fetches) :
                   /\ FetchResume(f)
                   /\ fetches[f].st = "resolved"
                   /\ activeTokens' = fetches[f].snap
             \/ \E c \in 1..Len(calls) :
                   /\ InsertResume(c)
                   /\ calls[c].st = "stored"
                   /\ activeTokens' = Append(activeTokens, calls[c].tok)
             \/ /\ SeederAfterInsert
                /\ seed.pc = "stored"
                /\ activeTokens' = Append(activeTokens, seed.tok)]_vars

\* The cache is the snapshot of a store that held one token, followed by the
\* record a createApiToken call appended.
C17_Witness ==
    \E c \in 1..Len(calls) :
        /\ calls[c].st = "returned"
        /\ activeTokens = <<OldClient, calls[c].tok>>

\* C18: a fetch that the store has not answered holds back nothing but
\* itself: while the timer runs a tick can start a fetch of its own (up to
\* the bound on outstanding fetches), the fetches before it staying as they
\* are, and when a later-started fetch resumes with the store's answer that
\* answer becomes the cache although an earlier one is still pending.
C18_HungFetch ==
    /\ []((timer /\ Len(fetches) < MaxPending) => ENABLED TimerTick)
    /\ [][TimerTick
          => /\ Len(fetches') = Len(fetches) + 1
             /\ Last(fetches').st = "pending"
             /\ SubSeq(fetches', 1, Len(fetches)) = fetches]_vars
    /\ [][\A f \in 1..Len(fetches) :
            (/\ FetchResume(f)
             /\ fetches[f].st = "resolved"
             /\ \E g \in 1..(f - 1) : fetches[g].st = "pending")
            => /\ activeTokens' = fetches[f].snap
               /\ \A g \in 1..(f - 1) : fetches'[g].st = fetches[g].st]_vars

\* The constructor's fetch is still unanswered, and the cache holds what a
\* fetch started by a later tick brought.
C18_Witness ==
    /\ Len(fetches) = 1
    /\ fetches[1].first
    /\ fetches[1].st = "pending"
    /\ calls = <<>>
    /\ activeTokens = Active(store)
    /\ activeTokens # <<>>

\* The secrets of the records the seeder has inserted so far.
SeededSecrets ==
    {SeedToken(initApiTokens.tokens[j]).secret : j \in 1..(seed.i - 1)}

\* C19: whenever the store performs an insert of the seeder, every token it
\* holds at that moment is one the seeder inserted before: no insert of
\* another activity comes between the count and the seeder's inserts.
C19_SeedsEmptyStore ==
    [][(StoreInsertSeed /\ seed'.pc = "stored")
       => \A i \in 1..Len(store) : store[i].secret \in SeededSecrets]_vars

\* The lookups agree with the store: a secret is found exactly when it is
\* the secret of an active record of the store.
Consistent ==
    \A s \in Presentable :
        getUserForToken(activeTokens, s) # Absent <=> s \in SecretsOf(Active(store))

\* C20: in a service that is not destroyed, whose store answers fetches
\* successfully again and again, and in which creates, deletes and expiry
\* updates come to an end, the lookups eventually agree with the store's
\* active records and agree from then on.
C20_EventuallyConsistent == <>[]Consistent

\* A refresh has brought a changed expiry date into the cache, and the
\* lookups agree with the store.
C20_Witness ==
    /\ Consistent
    /\ nStoreOps > 0
    /\ \E i \in 1..Len(activeTokens) : activeTokens[i].expiresAt = "future"

====
